---- MODULE Spec2Model ----
(***************************************************************************)
(* A model of the TopCodes scanner (src/src/scanner.rs): the Scanner       *)
(* object, set_max_code_diameter, and scan = threshold + find_codes.       *)
(* The threshold pass is modelled one pixel per step, find_codes one       *)
(* candidate per step.                                                     *)
(***************************************************************************)
EXTENDS Integers, Sequences, FiniteSets, TLC

(***************************************************************************)
(* Bounds of the model.                                                    *)
(***************************************************************************)
\* Widest image whose rows are drawn freely from BarPixels.
MaxBarWidth == 8
\* Widest image of one uniform colour.
MaxUniformWidth == 33
\* Tallest image whose rows are drawn freely from BarPixels.
MaxBarHeight == 2
\* Tallest image.
MaxHeight == 3
\* Largest small argument of set_max_code_diameter.
MaxDiameter == 9
\* Arguments 2^53 .. 2^53 + MaxBigOffset of set_max_code_diameter.
MaxBigOffset == 1
\* Image size and number of candidates when find_codes is run on drawn
\* candidate lists.
MaxFindWidth == 5
MaxFindHeight == 2
MaxCandidates == 3
\* Largest buffer on which get_bw_3x3, get_sample_3x3 and dist are run.
MaxQueryWidth == 6
MaxQueryHeight == 5

(***************************************************************************)
(* Program constants.                                                      *)
(***************************************************************************)
DEFAULT_MAX_UNIT == 80
\* let s = 32 in threshold
s == 32
\* let mut sum = 128 in threshold
InitialSum == 128

(***************************************************************************)
(* usize / f64 values too wide for the model checker's integers: a number  *)
(* is the pair [hi, lo] standing for hi * 2^27 + lo with 0 <= lo < 2^27.   *)
(* Only diameter and max_unit are held this way.                           *)
(***************************************************************************)
WideBase == 2^27

Wide(n) == [hi |-> n \div WideBase, lo |-> n % WideBase]

\* hi * 2^27 + lo with a carry out of lo folded into hi
WideNorm(h, l) == [hi |-> h + (l \div WideBase), lo |-> l % WideBase]

WideAdd(a, b) == WideNorm(a.hi + b.hi, a.lo + b.lo)

WideLeq(a, b) == a.hi < b.hi \/ (a.hi = b.hi /\ a.lo <= b.lo)

\* 8 * a
WideMul8(a) == WideNorm(8 * a.hi, 8 * a.lo)

\* a - 1, for a >= 1
WidePred(a) ==
    IF a.lo > 0 THEN [hi |-> a.hi, lo |-> a.lo - 1]
    ELSE [hi |-> a.hi - 1, lo |-> WideBase - 1]

\* floor(log2(n)) for n >= 1
RECURSIVE FloorLog2(_)
FloorLog2(n) == IF n <= 1 THEN 0 ELSE 1 + FloorLog2(n \div 2)

\* `diameter as f64`: exact below 2^53; above, the 53-bit significand keeps
\* only multiples of ulp = 2^(e-52), rounding to nearest, ties to even.
AsF64(d) ==
    IF d.hi < 2^26 THEN d
    ELSE LET ulp == 2^(FloorLog2(d.hi) - 25)
             q   == d.lo \div ulp
             r   == d.lo % ulp
             up  == IF 2 * r > ulp THEN 1
                    ELSE IF 2 * r < ulp THEN 0
                    ELSE q % 2
         IN  WideNorm(d.hi, (q + up) * ulp)

\* (f / 8.0).ceil() as usize: the division by a power of two and the ceiling
\* are exact on an f64 of this size.
CeilDiv8(f) ==
    WideNorm(f.hi \div 8,
             (f.hi % 8) * 2^24 + (f.lo \div 8) + (IF f.lo % 8 = 0 THEN 0 ELSE 1))

\* the body of set_max_code_diameter: the new max_unit
MaxUnitFor(diameter) == CeilDiv8(AsF64(diameter))

(***************************************************************************)
(* Pixels and images.  The caller's image_buffer is a function from the    *)
(* flat pixel index to an (R, G, B) triple; decode_rgb reads one entry.    *)
(***************************************************************************)
Black == <<0, 0, 0>>
White == <<255, 255, 255>>
Dark == <<2, 0, 1>>

BarPixels == {Dark, White}

UniformPixels == {Black, White, <<2, 2, 2>>, <<3, 3, 3>>}

\* images whose rows all hold the same freely chosen pixels (vertical bars)
BarImages(w, h) ==
    IF w > MaxBarWidth \/ h > MaxBarHeight THEN {}
    ELSE {[n \in 0..(w * h - 1) |-> row[n % w]] : row \in [0..(w - 1) -> BarPixels]}

\* images of one colour
UniformImages(w, h) == {[n \in 0..(w * h - 1) |-> p] : p \in UniformPixels}

ImageSet(w, h) == BarImages(w, h) \cup UniformImages(w, h)

\* the closure the tests pass to scan: the triple stored at the index
decode_rgb(buffer, index) == buffer[index]

(***************************************************************************)
(* A buffer word (u32) is held as its top byte and its low 24 bits:        *)
(* value = top * 2^24 + low.                                               *)
(***************************************************************************)
Mask24 == 2^24

\* a mutant of Pack: the sum is masked to 12 bits
Pack_Mask12(a, sm) == [top |-> a % 256, low |-> sm % 4096]

\* ((a << 24) + (sum & 0xffffff)) as u32
Pack(a, sm) == [top |-> a % 256, low |-> sm % Mask24]

\* pixel >> 24
Top(pixel) == pixel.top

\* pixel >> 24 & 0x01
Bit(pixel) == pixel.top % 2

\* pixel & 0xffffff
Low24(pixel) == pixel.low

ZeroWord == [top |-> 0, low |-> 0]

(***************************************************************************)
(* The state.                                                              *)
(***************************************************************************)
VARIABLES
    width, height, data, max_unit,       \* the Scanner
    image_buffer,                        \* the caller's image
    pc,                                  \* "idle", "row", "pixel", "find_codes"
    j, i, k, sum, level, b1, b2, w1,     \* locals of threshold
    candidates,                          \* threshold's result
    next, spots,                         \* locals of find_codes
    topcodes,                            \* what the last scan returned
    written,                             \* indices stored so far in this pass
    last,                                \* index of the pixel just processed, -1 if none
    log,                                 \* what find_codes did with each candidate
    prev,                                \* buffer and candidates of the previous pass
    query                                \* the call of a sampling helper, and dist's locals

scanner == <<width, height, data, max_unit>>
thresholdLocals == <<j, i, k, sum, level, b1, b2, w1>>
findLocals == <<next, spots>>
vars == <<width, height, data, max_unit, image_buffer, pc, j, i, k, sum, level,
          b1, b2, w1, candidates, next, spots, topcodes, written,
          last, log, prev, query>>

\* enum UnitLevel
WhiteRegion == 0
BlackRegion == 1
WhiteRegionSecond == 2
BlackRegionSecond == 3

NoPrev == [valid |-> FALSE]

\* no sampling helper has been called
NoQuery ==
    [op |-> "none", at |-> "idle", x |-> 0, y |-> 0, dx |-> 0, dy |-> 0,
     start |-> 0, i |-> 0, j |-> 0, iterations |-> 0, reads |-> {}, result |-> 0]

\* arguments of set_max_code_diameter: 0..MaxDiameter
Diameters == {Wide(n) : n \in 0..MaxDiameter}

\* arguments of set_max_code_diameter: 2^53..2^53+MaxBigOffset
BigDiameters == {[hi |-> 2^26, lo |-> e] : e \in 0..MaxBigOffset}

(***************************************************************************)
(* Scanner::new and set_max_code_diameter.                                 *)
(***************************************************************************)
\* Scanner::new(w, h)
New(w, h) ==
    /\ width = w
    /\ height = h
    /\ data = [n \in 0..(w * h - 1) |-> ZeroWord]
    /\ max_unit = Wide(DEFAULT_MAX_UNIT)

Idle ==
    /\ pc = "idle"
    /\ j = 0 /\ i = 0 /\ k = 0 /\ sum = 0
    /\ level = WhiteRegion /\ b1 = 0 /\ b2 = 0 /\ w1 = 0
    /\ candidates = <<>>
    /\ next = 0 /\ spots = <<>>
    /\ topcodes = <<>>
    /\ written = {}
    /\ last = -1
    /\ log = <<>>
    /\ prev = NoPrev
    /\ query = NoQuery

Init ==
    \E w \in 1..MaxUniformWidth, h \in 1..MaxHeight :
        /\ New(w, h)
        /\ image_buffer \in ImageSet(w, h)
        /\ Idle

\* set_max_code_diameter(diameter), callable between scans (&mut self)
set_max_code_diameter(diameter) ==
    /\ pc = "idle"
    /\ max_unit' = MaxUnitFor(diameter)
    /\ prev' = NoPrev
    /\ UNCHANGED <<width, height, data, image_buffer, pc, thresholdLocals,
                   candidates, findLocals, topcodes, written, last, log, query>>

SetMaxCodeDiameter == \E d \in Diameters : set_max_code_diameter(d)

SetMaxCodeDiameterBig == \E d \in BigDiameters : set_max_code_diameter(d)

(***************************************************************************)
(* threshold: the Wellner pass, one pixel per step.                        *)
(***************************************************************************)
\* isize division, which truncates toward zero
TruncDiv(a, b) == IF a >= 0 THEN a \div b ELSE -((-a) \div b)

Abs(a) == IF a >= 0 THEN a ELSE -a

\* (r + g + b) as isize / 3
Intensity(rgb) == TruncDiv(rgb[1] + rgb[2] + rgb[3], 3)

\* a mutant of UpdateSum: the decay term sum / s is dropped
UpdateSum_NoDecay(sm, a) == sm + a

\* sum += a - (sum / s)
UpdateSum(sm, a) == sm + (a - TruncDiv(sm, s))

\* a mutant of ThresholdOf: the word at kk itself is read, not the one above
ThresholdOf_Stale(sm, kk, buf, w) ==
    IF kk >= w THEN TruncDiv(sm + Low24(buf[kk]), 2 * s)
    ELSE TruncDiv(sm, s)

\* a mutant of ThresholdOf: the running sum as it was before this pixel's
\* update is used
ThresholdOf_BeforeUpdate(sm, kk, buf, w) ==
    IF kk >= w THEN TruncDiv(sum + Low24(buf[kk - w]), 2 * s)
    ELSE TruncDiv(sum, s)

\* the threshold of pixel kk: the previous row's stored sum is factored in
ThresholdOf(sm, kk, buf, w) ==
    IF kk >= w THEN TruncDiv(sm + Low24(buf[kk - w]), 2 * s)
    ELSE TruncDiv(sm, s)

\* a mutant of Binarize: <= in place of <
Binarize_Leq(a, threshold) == IF 40 * a <= 39 * threshold THEN 0 ELSE 1

\* (a as f64) < (threshold as f64 * 0.975) gives 0, otherwise 1.  On the
\* integers involved the f64 comparison agrees with 40 * a < 39 * threshold.
Binarize(a, threshold) == IF 40 * a < 39 * threshold THEN 0 ELSE 1

\* a mutant of RatioOk: the three bounds by max_unit are dropped
RatioOk_NoMaxUnit(vb1, vw1, vb2, max_u) ==
    /\ vb1 >= 2
    /\ vb2 >= 2
    /\ Abs(vb1 + vb2 - vw1) <= vb1 + vb2
    /\ Abs(vb1 + vb2 - vw1) <= vw1
    /\ Abs(vb1 - vb2) <= vb1
    /\ Abs(vb1 - vb2) <= vb2

\* a mutant of RatioOk: the two minimum run lengths are dropped
RatioOk_NoMinRun(vb1, vw1, vb2, max_u) ==
    /\ WideLeq(Wide(vb1), max_u)
    /\ WideLeq(Wide(vb2), max_u)
    /\ WideLeq(Wide(vw1), WideAdd(max_u, max_u))
    /\ Abs(vb1 + vb2 - vw1) <= vb1 + vb2
    /\ Abs(vb1 + vb2 - vw1) <= vw1
    /\ Abs(vb1 - vb2) <= vb1
    /\ Abs(vb1 - vb2) <= vb2

\* the ratio constraints of a black-white-black run; max_u is max_unit as isize
RatioOk(vb1, vw1, vb2, max_u) ==
    /\ vb1 >= 2
    /\ vb2 >= 2
    /\ WideLeq(Wide(vb1), max_u)
    /\ WideLeq(Wide(vb2), max_u)
    /\ WideLeq(Wide(vw1), WideAdd(max_u, max_u))
    /\ Abs(vb1 + vb2 - vw1) <= vb1 + vb2
    /\ Abs(vb1 + vb2 - vw1) <= vw1
    /\ Abs(vb1 - vb2) <= vb1
    /\ Abs(vb1 - vb2) <= vb2

\* a mutant of RingStep: leaving BlackRegionSecond carries the trailing black
\* run into b1 only when the ratio constraints hold
RingStep_CarryOnHit(lv, vb1, vw1, vb2, a, max_u) ==
    CASE lv = WhiteRegion ->
           IF a = 0
           THEN [level |-> BlackRegion, b1 |-> 1, w1 |-> 0, b2 |-> 0, hit |-> FALSE]
           ELSE [level |-> lv, b1 |-> vb1, w1 |-> vw1, b2 |-> vb2, hit |-> FALSE]
      [] lv = BlackRegion ->
           IF a = 0
           THEN [level |-> lv, b1 |-> vb1 + 1, w1 |-> vw1, b2 |-> vb2, hit |-> FALSE]
           ELSE [level |-> WhiteRegionSecond, b1 |-> vb1, w1 |-> 1, b2 |-> vb2,
                 hit |-> FALSE]
      [] lv = WhiteRegionSecond ->
           IF a = 0
           THEN [level |-> BlackRegionSecond, b1 |-> vb1, w1 |-> vw1, b2 |-> 1,
                 hit |-> FALSE]
           ELSE [level |-> lv, b1 |-> vb1, w1 |-> vw1 + 1, b2 |-> vb2, hit |-> FALSE]
      [] lv = BlackRegionSecond ->
           IF a = 0
           THEN [level |-> lv, b1 |-> vb1, w1 |-> vw1, b2 |-> vb2 + 1, hit |-> FALSE]
           ELSE IF RatioOk(vb1, vw1, vb2, max_u)
           THEN [level |-> WhiteRegionSecond, b1 |-> vb2, w1 |-> 1, b2 |-> 0,
                 hit |-> TRUE]
           ELSE [level |-> WhiteRegionSecond, b1 |-> vb1, w1 |-> 1, b2 |-> 0,
                 hit |-> FALSE]

\* a mutant of RingStep: the first white pixel after the leading black run
\* moves the machine to BlackRegionSecond
RingStep_SkipsW2(lv, vb1, vw1, vb2, a, max_u) ==
    CASE lv = WhiteRegion ->
           IF a = 0
           THEN [level |-> BlackRegion, b1 |-> 1, w1 |-> 0, b2 |-> 0, hit |-> FALSE]
           ELSE [level |-> lv, b1 |-> vb1, w1 |-> vw1, b2 |-> vb2, hit |-> FALSE]
      [] lv = BlackRegion ->
           IF a = 0
           THEN [level |-> lv, b1 |-> vb1 + 1, w1 |-> vw1, b2 |-> vb2, hit |-> FALSE]
           ELSE [level |-> BlackRegionSecond, b1 |-> vb1, w1 |-> 1, b2 |-> vb2,
                 hit |-> FALSE]
      [] lv = WhiteRegionSecond ->
           IF a = 0
           THEN [level |-> BlackRegionSecond, b1 |-> vb1, w1 |-> vw1, b2 |-> 1,
                 hit |-> FALSE]
           ELSE [level |-> lv, b1 |-> vb1, w1 |-> vw1 + 1, b2 |-> vb2, hit |-> FALSE]
      [] lv = BlackRegionSecond ->
           IF a = 0
           THEN [level |-> lv, b1 |-> vb1, w1 |-> vw1, b2 |-> vb2 + 1, hit |-> FALSE]
           ELSE [level |-> WhiteRegionSecond, b1 |-> vb2, w1 |-> 1, b2 |-> 0,
                 hit |-> RatioOk(vb1, vw1, vb2, max_u)]

\* match level { ... }: the new (level, b1, w1, b2) and whether a candidate
\* is pushed, on binary pixel a
RingStep(lv, vb1, vw1, vb2, a, max_u) ==
    CASE lv = WhiteRegion ->
           IF a = 0
           THEN [level |-> BlackRegion, b1 |-> 1, w1 |-> 0, b2 |-> 0, hit |-> FALSE]
           ELSE [level |-> lv, b1 |-> vb1, w1 |-> vw1, b2 |-> vb2, hit |-> FALSE]
      [] lv = BlackRegion ->
           IF a = 0
           THEN [level |-> lv, b1 |-> vb1 + 1, w1 |-> vw1, b2 |-> vb2, hit |-> FALSE]
           ELSE [level |-> WhiteRegionSecond, b1 |-> vb1, w1 |-> 1, b2 |-> vb2,
                 hit |-> FALSE]
      [] lv = WhiteRegionSecond ->
           IF a = 0
           THEN [level |-> BlackRegionSecond, b1 |-> vb1, w1 |-> vw1, b2 |-> 1,
                 hit |-> FALSE]
           ELSE [level |-> lv, b1 |-> vb1, w1 |-> vw1 + 1, b2 |-> vb2, hit |-> FALSE]
      [] lv = BlackRegionSecond ->
           IF a = 0
           THEN [level |-> lv, b1 |-> vb1, w1 |-> vw1, b2 |-> vb2 + 1, hit |-> FALSE]
           ELSE [level |-> WhiteRegionSecond, b1 |-> vb2, w1 |-> 1, b2 |-> 0,
                 hit |-> RatioOk(vb1, vw1, vb2, max_u)]

\* a mutant of CandidateIndex: the leading black run is stepped over too
CandidateIndex_PastB1(row, kk, vb2, vw1) ==
    LET dk == 1 + vb2 + vw1 + b1
    IN  IF row % 2 = 0 THEN kk - dk ELSE kk + dk

\* dk: the flat index 1 + b2 + (w1 >> 1) pixels back along the scan direction
CandidateIndex(row, kk, vb2, vw1) ==
    LET dk == 1 + vb2 + (vw1 \div 2)
    IN  IF row % 2 = 0 THEN kk - dk ELSE kk + dk

\* Candidate::new(x, y)
Candidate(x, y) == [x |-> x, y |-> y]

\* a mutant of RowStart: every row starts at its left end
RowStart_LeftAlways(row, w) == row * w

\* the flat index at which row `row` starts: its left end on even rows, its
\* right end on odd rows
RowStart(row, w) == (IF row % 2 = 0 THEN 0 ELSE w - 1) + row * w

\* a mutant of NextIndex: k rises on every row
NextIndex_AlwaysUp(row, kk) == kk + 1

\* if j % 2 == 0 { k += 1 } else { k -= 1 }
NextIndex(row, kk) == IF row % 2 = 0 THEN kk + 1 ELSE kk - 1

\* scan, up to the first row of threshold
ScanBegin ==
    /\ pc = "idle"
    /\ pc' = "row"
    /\ candidates' = <<>>
    /\ sum' = InitialSum
    /\ j' = 0
    /\ written' = {}
    /\ last' = -1
    /\ log' = <<>>
    /\ topcodes' = <<>>
    /\ UNCHANGED <<scanner, image_buffer, i, k, level, b1, b2, w1, findLocals,
                   prev, query>>

\* for j in 0..self.height: the head of a row, or the return of threshold
\* into find_codes
ThresholdRow ==
    /\ pc = "row"
    /\ IF j < height
       THEN /\ level' = WhiteRegion
            /\ b1' = 0
            /\ b2' = 0
            /\ w1' = 0
            /\ k' = RowStart(j, width)
            /\ i' = 0
            /\ pc' = "pixel"
            /\ UNCHANGED <<j, sum, findLocals>>
       ELSE /\ pc' = "find_codes"
            /\ next' = 1
            /\ spots' = <<>>
            /\ j' = 0 /\ i' = 0 /\ k' = 0 /\ sum' = 0
            /\ level' = WhiteRegion /\ b1' = 0 /\ b2' = 0 /\ w1' = 0
    /\ UNCHANGED <<scanner, image_buffer, candidates, topcodes,
                   written, last, log, prev, query>>

\* for _i in 0..self.width: one pixel
ThresholdPixel ==
    /\ pc = "pixel"
    /\ LET a0        == Intensity(decode_rgb(image_buffer, k))
           sum1      == UpdateSum(sum, a0)
           threshold == ThresholdOf(sum1, k, data, width)
           a         == Binarize(a0, threshold)
           r         == RingStep(level, b1, w1, b2, a, max_unit)
           dk        == CandidateIndex(j, k, b2, w1)
       IN  IF r.hit /\ dk < 0
           THEN \* k - dk underflows usize
                /\ pc' = "panic"
                /\ sum' = sum1
                /\ data' = [data EXCEPT ![k] = Pack(a, sum1)]
                /\ written' = written \cup {k}
                /\ last' = k
                /\ UNCHANGED <<j, i, k, level, b1, b2, w1, candidates>>
           ELSE /\ sum' = sum1
                /\ data' = [data EXCEPT ![k] = Pack(a, sum1)]
                /\ written' = written \cup {k}
                /\ last' = k
                /\ level' = r.level
                /\ b1' = r.b1
                /\ w1' = r.w1
                /\ b2' = r.b2
                /\ candidates' = IF r.hit
                                  THEN Append(candidates, Candidate(dk % width, j))
                                  ELSE candidates
                /\ k' = NextIndex(j, k)
                /\ IF i + 1 < width
                   THEN i' = i + 1 /\ j' = j /\ pc' = "pixel"
                   ELSE i' = 0 /\ j' = j + 1 /\ pc' = "row"
    /\ UNCHANGED <<width, height, max_unit, image_buffer, findLocals, topcodes,
                   log, prev, query>>

(***************************************************************************)
(* TopCode, as far as the scanner uses it: code, unit and the centre       *)
(* (orientation and core are not read by the scanner).  The decoder is     *)
(* not part of the scanner: decode may leave the marker invalid or make    *)
(* it valid with a refined centre and a unit.                              *)
(***************************************************************************)
NoCode == -1

Codes == {31}

\* units (in pixels) decode reports
DecodeUnits == {1, 2}

\* per axis, how far decode moves a candidate's centre
RefineOffsets == {-1, 0, 1}

\* TopCode::default()
DefaultTopCode == [code |-> NoCode, unit |-> 0, x |-> 0, y |-> 0]

\* TopCode::is_valid
is_valid(top) == top.code # NoCode

\* TopCode::in_bullseye: (px, py) is within unit * 3 of the centre
in_bullseye(top, px, py) ==
    (top.x - px) * (top.x - px) + (top.y - py) * (top.y - py)
        <= (3 * top.unit) * (3 * top.unit)

\* the markers TopCode::decode may produce from candidate (x, y)
Decode(x, y) ==
    {DefaultTopCode} \cup
    {[code |-> c, unit |-> u, x |-> cx, y |-> cy] :
        c \in Codes, u \in DecodeUnits,
        cx \in {x + d : d \in RefineOffsets} \cap (0..(width - 1)),
        cy \in {y + d : d \in RefineOffsets} \cap (0..(height - 1))}

(***************************************************************************)
(* find_codes, one candidate per step.                                     *)
(***************************************************************************)
\* a mutant of overlaps: only the marker accepted last is tested
overlaps_LastOnly(tops, x, y) ==
    Len(tops) > 0 /\ in_bullseye(tops[Len(tops)], x, y)

\* Scanner::overlaps
overlaps(tops, x, y) == \E n \in 1..Len(tops) : in_bullseye(tops[n], x, y)

\* for c in candidates: one candidate
FindCodesStep ==
    /\ pc = "find_codes"
    /\ next <= Len(candidates)
    /\ LET c == candidates[next]
       IN  IF ~overlaps(spots, c.x, c.y)
           THEN \E spot \in Decode(c.x, c.y) :
                   /\ spots' = IF is_valid(spot) THEN Append(spots, spot) ELSE spots
                   /\ log' = Append(log, [c |-> c, decoded |-> TRUE, spot |-> spot])
           ELSE /\ spots' = spots
                /\ log' = Append(log, [c |-> c, decoded |-> FALSE,
                                        spot |-> DefaultTopCode])
    /\ next' = next + 1
    /\ UNCHANGED <<scanner, image_buffer, pc, thresholdLocals, candidates,
                   topcodes, written, last, prev, query>>

\* find_codes returns spots, and scan returns them to the caller
FindCodesReturn ==
    /\ pc = "find_codes"
    /\ next > Len(candidates)
    /\ topcodes' = spots
    /\ prev' = [valid |-> TRUE, data |-> data, candidates |-> candidates]
    /\ candidates' = <<>>
    /\ next' = 0
    /\ spots' = <<>>
    /\ pc' = "idle"
    /\ UNCHANGED <<scanner, image_buffer, thresholdLocals, written,
                   last, log, query>>

Next ==
    \/ SetMaxCodeDiameter
    \/ ScanBegin
    \/ ThresholdRow
    \/ ThresholdPixel
    \/ FindCodesStep
    \/ FindCodesReturn

Spec == Init /\ [][Next]_vars

(***************************************************************************)
(* set_max_code_diameter alone, over small and very large diameters.       *)
(***************************************************************************)
NextConfig ==
    \/ SetMaxCodeDiameter
    \/ SetMaxCodeDiameterBig

SpecConfig == Init /\ [][NextConfig]_vars

(***************************************************************************)
(* find_codes alone, on candidate lists drawn in discovery order: rows     *)
(* top to bottom, columns rising on even rows and falling on odd rows.     *)
(***************************************************************************)
\* position of (x, y) in the boustrophedon sweep of a w-wide image
ScanOrder(w, c) == c.y * w + (IF c.y % 2 = 0 THEN c.x ELSE w - 1 - c.x)

RECURSIVE InOrder(_, _)
InOrder(w, cs) ==
    \/ Len(cs) <= 1
    \/ /\ ScanOrder(w, cs[1]) < ScanOrder(w, cs[2])
       /\ InOrder(w, Tail(cs))

CandidateLists(w, h) ==
    LET points == {Candidate(x, y) : x \in 0..(w - 1), y \in 0..(h - 1)}
    IN  {cs \in UNION {[1..n -> points] : n \in 0..MaxCandidates} : InOrder(w, cs)}

InitFind ==
    /\ New(MaxFindWidth, MaxFindHeight)
    /\ image_buffer = [n \in 0..(MaxFindWidth * MaxFindHeight - 1) |-> Black]
    /\ pc = "find_codes"
    /\ j = 0 /\ i = 0 /\ k = 0 /\ sum = 0
    /\ level = WhiteRegion /\ b1 = 0 /\ b2 = 0 /\ w1 = 0
    /\ candidates \in CandidateLists(MaxFindWidth, MaxFindHeight)
    /\ next = 1 /\ spots = <<>>
    /\ topcodes = <<>>
    /\ written = 0..(MaxFindWidth * MaxFindHeight - 1)
    /\ last = -1
    /\ log = <<>>
    /\ prev = NoPrev
    /\ query = NoQuery

NextFind ==
    \/ FindCodesStep
    \/ FindCodesReturn

SpecFind == InitFind /\ [][NextFind]_vars

(***************************************************************************)
(* The sampling helpers get_sample_3x3, get_bw_3x3 and dist, run on        *)
(* buffers of binary pixels, one call per behaviour (the helpers only      *)
(* read the Scanner).  dist is modelled one loop iteration per step.       *)
(***************************************************************************)
\* if x < 1 || x >= self.width - 1 || y < 1 || y >= self.height - 1
OnBorder(x, y) == x < 1 \/ x >= width - 1 \/ y < 1 \/ y >= height - 1

\* the indices j * self.width + i read by the two loops over the 3x3 window,
\* in the order read
WindowReads(x, y) ==
    [n \in 1..9 |-> (y - 1 + ((n - 1) \div 3)) * width + (x - 1 + ((n - 1) % 3))]

\* sum += weight * (pixel >> 24 & 0x01) over the first n reads
RECURSIVE WindowSum(_, _, _)
WindowSum(reads, n, weight) ==
    IF n = 0 THEN 0
    ELSE WindowSum(reads, n - 1, weight) + weight * Bit(data[reads[n]])

\* a mutant of get_sample_3x3: the bits are scaled by 0x100
get_sample_3x3_Scale256(x, y) ==
    IF OnBorder(x, y) THEN 0
    ELSE WindowSum(WindowReads(x, y), 9, 256) \div 9

\* Scanner::get_sample_3x3
get_sample_3x3(x, y) ==
    IF OnBorder(x, y) THEN 0
    ELSE WindowSum(WindowReads(x, y), 9, 255) \div 9

\* a mutant of get_bw_3x3: four white pixels are enough
get_bw_3x3_AtLeast4(x, y) ==
    IF OnBorder(x, y) THEN 0
    ELSE IF WindowSum(WindowReads(x, y), 9, 1) >= 4 THEN 1 ELSE 0

\* Scanner::get_bw_3x3
get_bw_3x3(x, y) ==
    IF OnBorder(x, y) THEN 0
    ELSE IF WindowSum(WindowReads(x, y), 9, 1) >= 5 THEN 1 ELSE 0

\* the buffer indices a call of either helper at (x, y) reads
ReadsAt(x, y) ==
    IF OnBorder(x, y) THEN {} ELSE {WindowReads(x, y)[n] : n \in 1..9}

\* a call of get_bw_3x3(x, y)
GetBw3x3 ==
    /\ pc = "idle"
    /\ query.at = "idle"
    /\ \E x \in 0..width, y \in 0..height :
          query' = [NoQuery EXCEPT !.op = "get_bw_3x3", !.at = "returned",
                                   !.x = x, !.y = y,
                                   !.reads = ReadsAt(x, y),
                                   !.result = get_bw_3x3(x, y)]
    /\ UNCHANGED <<scanner, image_buffer, pc, thresholdLocals, candidates,
                   findLocals, topcodes, written, last, log, prev>>

\* a call of get_sample_3x3(x, y)
GetSample3x3 ==
    /\ pc = "idle"
    /\ query.at = "idle"
    /\ \E x \in 0..width, y \in 0..height :
          query' = [NoQuery EXCEPT !.op = "get_sample_3x3", !.at = "returned",
                                   !.x = x, !.y = y,
                                   !.reads = ReadsAt(x, y),
                                   !.result = get_sample_3x3(x, y)]
    /\ UNCHANGED <<scanner, image_buffer, pc, thresholdLocals, candidates,
                   findLocals, topcodes, written, last, log, prev>>

\* the directions dist is called with: each of dx, dy in -1, 0, 1
Directions == {<<dx, dy>> : dx \in {-1, 0, 1}, dy \in {-1, 0, 1}}

\* the most loop iterations of dist the model follows
IterationCap == (IF width >= height THEN width ELSE height) + 2

\* a mutant of DistOutside: the same border on all four sides
DistOutside_Symmetric(ii, jj) ==
    ii < 1 \/ ii >= width - 1 \/ jj < 1 \/ jj >= height - 1

\* if i <= 1 || i >= self.width as isize - 1 || j <= 1 || j >= self.height as isize
DistOutside(ii, jj) == ii <= 1 \/ ii >= width - 1 \/ jj <= 1 \/ jj >= height

\* dist(x, y, dx, dy), up to the loop
DistBegin ==
    /\ pc = "idle"
    /\ query.at = "idle"
    /\ \E x \in 0..(width - 1), y \in 0..(height - 1), d \in Directions :
          query' = [NoQuery EXCEPT !.op = "dist", !.at = "loop",
                                   !.x = x, !.y = y, !.dx = d[1], !.dy = d[2],
                                   !.start = get_bw_3x3(x, y),
                                   !.i = x + d[1], !.j = y + d[2]]
    /\ UNCHANGED <<scanner, image_buffer, pc, thresholdLocals, candidates,
                   findLocals, topcodes, written, last, log, prev>>

\* one iteration of dist's loop
DistLoop ==
    /\ pc = "idle"
    /\ query.at = "loop"
    /\ query.iterations < IterationCap
    /\ IF DistOutside(query.i, query.j)
       THEN query' = [query EXCEPT !.at = "returned", !.result = -1,
                                   !.iterations = @ + 1]
       ELSE IF query.start + get_bw_3x3(query.i, query.j) = 1
       THEN query' = [query EXCEPT !.at = "returned",
                                   !.result = Abs(query.i - query.x)
                                                  + Abs(query.j - query.y),
                                   !.iterations = @ + 1]
       ELSE query' = [query EXCEPT !.i = @ + query.dx, !.j = @ + query.dy,
                                   !.iterations = @ + 1]
    /\ UNCHANGED <<scanner, image_buffer, pc, thresholdLocals, candidates,
                   findLocals, topcodes, written, last, log, prev>>

\* a buffer word holding binary value a (the low 24 bits are not read by the
\* helpers)
QueryWord(a) == Pack(a, InitialSum)

\* buffers of vertical bars, of horizontal bars and, for 3x3, of every
\* pattern of binary values
QueryBuffers(w, h) ==
    {[n \in 0..(w * h - 1) |-> QueryWord(col[n % w])] : col \in [0..(w - 1) -> {0, 1}]}
    \cup
    {[n \in 0..(w * h - 1) |-> QueryWord(row[n \div w])] : row \in [0..(h - 1) -> {0, 1}]}
    \cup
    (IF w = 3 /\ h = 3
     THEN {[n \in 0..8 |-> QueryWord(bits[n])] : bits \in [0..8 -> {0, 1}]}
     ELSE {})

InitQuery ==
    \E w \in 1..MaxQueryWidth, h \in 1..MaxQueryHeight :
        /\ width = w
        /\ height = h
        /\ data \in QueryBuffers(w, h)
        /\ max_unit = Wide(DEFAULT_MAX_UNIT)
        /\ image_buffer = [n \in 0..(w * h - 1) |-> Black]
        /\ Idle

NextQuery ==
    \/ GetBw3x3
    \/ GetSample3x3
    \/ DistBegin
    \/ DistLoop

SpecQuery == InitQuery /\ [][NextQuery]_vars

(***************************************************************************)
(* Properties.                                                             *)
(***************************************************************************)
\* m is the smallest integer with 8 * m >= d, for d >= 1
IsCeilOfEighth(m, d) ==
    /\ WideLeq(d, WideMul8(m))
    /\ WideLeq(Wide(1), m)
    /\ ~WideLeq(d, WideMul8(WidePred(m)))

PassDone == pc = "find_codes"

Max(a, b) == IF a >= b THEN a ELSE b

\* the squared Euclidean distance of the centres of two markers
Dist2(ta, tb) == (ta.x - tb.x) * (ta.x - tb.x) + (ta.y - tb.y) * (ta.y - tb.y)

\* C1 as claimed: any two distinct markers returned by scan have centres
\* further apart than max(unit_a, unit_b) * 3.  find_codes only tests the
\* candidate point against the markers accepted before it, not the centre
\* and unit that decode then reports.
C1_ReturnedMarkersApart ==
    \A m, n \in 1..Len(topcodes) :
        m # n =>
            Dist2(topcodes[m], topcodes[n])
                > (3 * Max(topcodes[m].unit, topcodes[n].unit))
                    * (3 * Max(topcodes[m].unit, topcodes[n].unit))

\* candidate number n was decoded and gave a valid marker
Accepted(n) == log[n].decoded /\ is_valid(log[n].spot)

\* the valid decoded markers of a log, in its order
RECURSIVE AcceptedSpots(_)
AcceptedSpots(lg) ==
    IF lg = <<>> THEN <<>>
    ELSE LET rest == AcceptedSpots(SubSeq(lg, 1, Len(lg) - 1))
             e    == lg[Len(lg)]
         IN  IF e.decoded /\ is_valid(e.spot) THEN Append(rest, e.spot) ELSE rest

\* C2: find_codes takes the candidates in discovery order; a candidate is
\* decoded exactly when it is in the bullseye of no marker accepted before
\* it, and the markers collected (and returned) are exactly the valid decoded
\* ones, in that order.
C2_FindCodesInOrder ==
    (pc = "find_codes" \/ (pc = "idle" /\ prev.valid)) =>
        LET cs     == IF pc = "find_codes" THEN candidates ELSE prev.candidates
            result == IF pc = "find_codes" THEN spots ELSE topcodes
        IN  /\ Len(log) = (IF pc = "find_codes" THEN next - 1 ELSE Len(cs))
            /\ \A n \in 1..Len(log) :
                   /\ log[n].c = cs[n]
                   /\ log[n].decoded <=>
                          ~\E m \in 1..(n - 1) :
                               /\ Accepted(m)
                               /\ in_bullseye(log[m].spot, cs[n].x, cs[n].y)
            /\ result = AcceptedSpots(log)

\* find_codes has returned two markers and skipped a candidate that lay in
\* the bullseye of one of them
C2_Witness ==
    /\ pc = "idle"
    /\ prev.valid
    /\ Len(topcodes) = 2
    /\ \E n \in 1..Len(log) : ~log[n].decoded
    /\ topcodes = AcceptedSpots(log)

InPass == pc \in {"row", "pixel"}

AllIndices == 0..(width * height - 1)

IsUniform(p) == \A n \in DOMAIN image_buffer : image_buffer[n] = p

\* C3: after a threshold pass every one of the width * height buffer words
\* has been written in that pass, and its top byte is 0 or 1.
C3_BufferPopulated ==
    PassDone =>
        /\ written = AllIndices
        /\ \A n \in AllIndices : Top(data[n]) \in {0, 1}

\* a pass over an image of several rows has ended with both colours stored
C3_Witness ==
    /\ PassDone
    /\ height >= 2
    /\ written = AllIndices
    /\ \E n, m \in AllIndices : Top(data[n]) = 0 /\ Top(data[m]) = 1

\* C4: re-running the pass on the same image with the same Scanner gives the
\* same buffer and the same candidates as the pass before, because every
\* previous-row word that is read (index k - width) was written earlier in
\* the same pass.
C4_RerunIdentical ==
    /\ (PassDone /\ prev.valid) =>
           /\ data = prev.data
           /\ candidates = prev.candidates
    /\ (pc = "pixel" /\ k >= width) => (k - width) \in written

\* a second pass over an image of several rows has ended with a candidate
C4_Witness ==
    /\ PassDone
    /\ prev.valid
    /\ height >= 2
    /\ candidates # <<>>
    /\ data = prev.data

\* the threshold pixel n was binarized with, read back from the buffer
StoredThreshold(n) == ThresholdOf(Low24(data[n]), n, data, width)

\* C5 as claimed: after a pass over an all-black image every buffer word has
\* 0 in its top byte and no candidate is produced.
C5_AllBlackBufferBlack ==
    (PassDone /\ IsUniform(Black)) =>
        /\ \A n \in AllIndices : Top(data[n]) = 0
        /\ candidates = <<>>

\* C5 amended: after a pass over an all-black image no candidate is produced;
\* every buffer word has 0 in its top byte when the image has at most 57
\* pixels, and in any image exactly the pixels whose threshold has fallen to 0
\* are stored white.
C5_AllBlackAmended ==
    (PassDone /\ IsUniform(Black)) =>
        /\ candidates = <<>>
        /\ width * height <= 57 => \A n \in AllIndices : Top(data[n]) = 0
        /\ \A n \in AllIndices : Top(data[n]) = 0 <=> StoredThreshold(n) >= 1

\* a pass over an all-black image has ended with a white pixel stored
C5_Witness ==
    /\ PassDone
    /\ IsUniform(Black)
    /\ candidates = <<>>
    /\ \E n \in AllIndices : Top(data[n]) = 1

\* C6: in a pass over an all-white image every word written has bit 1 in its
\* top byte, the ring state machine stays in WhiteRegion, and no candidate is
\* produced.
C6_AllWhite ==
    (IsUniform(White) /\ (InPass \/ PassDone)) =>
        /\ \A n \in written : Top(data[n]) = 1
        /\ level = WhiteRegion
        /\ candidates = <<>>
        /\ PassDone => written = AllIndices

\* a pass over an all-white image of at least 60 pixels has ended
C6_Witness ==
    /\ PassDone
    /\ IsUniform(White)
    /\ width * height >= 60
    /\ \A n \in AllIndices : Top(data[n]) = 1

\* C7: set_max_code_diameter(d) with d <= 8 leaves max_unit <= 1, and with
\* max_unit <= 1 a scan produces no candidate and returns an empty list.
C7_SmallDiameterNoCandidates ==
    /\ [][\A d \in 0..8 : set_max_code_diameter(Wide(d)) =>
              WideLeq(max_unit', Wide(1))]_vars
    /\ [](WideLeq(max_unit, Wide(1)) =>
              /\ pc # "idle" => candidates = <<>> /\ spots = <<>>
              /\ (pc = "idle" /\ prev.valid) =>
                     prev.candidates = <<>> /\ topcodes = <<>>)

\* with max_unit <= 1 a pass has ended, without a candidate, on a buffer whose
\* first row holds black, white, black runs of two pixels followed by white
C7_Witness ==
    /\ PassDone
    /\ WideLeq(max_unit, Wide(1))
    /\ candidates = <<>>
    /\ width >= 7
    /\ \E x \in 0..(width - 7) :
          <<Bit(data[x]), Bit(data[x + 1]), Bit(data[x + 2]), Bit(data[x + 3]),
            Bit(data[x + 4]), Bit(data[x + 5]), Bit(data[x + 6])>>
              = <<0, 0, 1, 1, 0, 0, 1>>

\* C10: during a pass the running sum stays in [0, 2^24) (indeed at most
\* 255 * (s + 1)), so the low 24 bits stored for the pixel just processed are
\* the running sum itself and the top byte holds only the binary bit.
C10_SumBounded ==
    InPass =>
        /\ 0 <= sum
        /\ sum < Mask24
        /\ sum <= 255 * (s + 1)
        /\ last >= 0 => /\ Low24(data[last]) = sum
                         /\ Top(data[last]) \in {0, 1}

\* a pixel has been stored while the running sum needs more than 12 bits
C10_Witness ==
    /\ pc = "pixel"
    /\ last >= 0
    /\ sum >= 4096
    /\ Low24(data[last]) = sum

\* C8: set_max_code_diameter(diameter) with diameter <= 0 is rejected: the
\* call leaves max_unit as it was (so max_unit never becomes 0).  The code
\* has no such check: set_max_code_diameter(0) stores max_unit = 0.
C8_ZeroDiameterRejected ==
    [][set_max_code_diameter(Wide(0)) => max_unit' = max_unit]_vars

\* C9: a new Scanner has max_unit = 80, and after set_max_code_diameter(d),
\* d >= 1, max_unit is the smallest m with 8 * m >= d, while width, height
\* and the buffer are unchanged.  The code computes the quotient in f64, so
\* for d = 2^53 + 1 it stores 2^50, and 8 * 2^50 < d.
C9_MaxUnitIsCeil ==
    [][\A d \in (Diameters \cup BigDiameters) \ {Wide(0)} :
          set_max_code_diameter(d) =>
              /\ IsCeilOfEighth(max_unit', d)
              /\ UNCHANGED <<width, height, data>>]_vars

\* C11: the ring state machine starts every row in (W, 0, 0, 0); on each
\* binary pixel a it follows the transition table (W: a=0 -> B with b1 = 1,
\* w1 = 0, b2 = 0; B: a=0 -> b1++, a=1 -> W2 with w1 = 1; W2: a=0 -> B2 with
\* b2 = 1, a=1 -> w1++; B2: a=0 -> b2++, a=1 -> W2 with b1 = b2, w1 = 1,
\* b2 = 0 whether or not the ratio constraints hold); once it has left W it
\* does not return to W within the row.
C11_RingFollowsTable ==
    /\ [][(ThresholdRow /\ pc' = "pixel") =>
              <<level', b1', w1', b2'>> = <<WhiteRegion, 0, 0, 0>>]_vars
    /\ [][(ThresholdPixel /\ pc' # "panic") =>
              LET a   == Bit(data'[k])
                  new == <<level', b1', w1', b2'>>
              IN  /\ (level = WhiteRegion /\ a = 0) => new = <<BlackRegion, 1, 0, 0>>
                  /\ (level = WhiteRegion /\ a = 1) => new = <<WhiteRegion, b1, w1, b2>>
                  /\ (level = BlackRegion /\ a = 0) => new = <<BlackRegion, b1 + 1, w1, b2>>
                  /\ (level = BlackRegion /\ a = 1) => new = <<WhiteRegionSecond, b1, 1, b2>>
                  /\ (level = WhiteRegionSecond /\ a = 0) =>
                         new = <<BlackRegionSecond, b1, w1, 1>>
                  /\ (level = WhiteRegionSecond /\ a = 1) =>
                         new = <<WhiteRegionSecond, b1, w1 + 1, b2>>
                  /\ (level = BlackRegionSecond /\ a = 0) =>
                         new = <<BlackRegionSecond, b1, w1, b2 + 1>>
                  /\ (level = BlackRegionSecond /\ a = 1) =>
                         new = <<WhiteRegionSecond, b2, 1, 0>>
                  /\ level # WhiteRegion => level' # WhiteRegion]_vars

\* in row 0 the machine has just left B2 on a white pixel without a candidate
\* (the ratio constraints failed) and carried the black run of one pixel
C11_Witness ==
    /\ pc = "pixel"
    /\ j = 0
    /\ last >= 3
    /\ candidates = <<>>
    /\ <<level, b1, w1, b2>> = <<WhiteRegionSecond, 1, 1, 0>>
    /\ <<Bit(data[last - 3]), Bit(data[last - 2]), Bit(data[last - 1]),
         Bit(data[last])>> = <<0, 1, 0, 1>>

\* the flat index of the pixel taken n-th (from 0) in row `row`
ScanIndex(row, n) == row * width + (IF row % 2 = 0 THEN n ELSE width - 1 - n)

\* the binary value stored for the pixel taken n-th in row `row`
RowBit(row, n) == Bit(data[ScanIndex(row, n)])

\* the length of the run of equal binary values of row `row` that ends at the
\* pixel taken n-th
RECURSIVE RunBack(_, _)
RunBack(row, n) ==
    IF n = 0 \/ RowBit(row, n - 1) # RowBit(row, n) THEN 1
    ELSE 1 + RunBack(row, n - 1)

\* the three runs of row `row` that end immediately before the pixel taken
\* n-th: ok says that there are three and that they are black, white, black
PrecedingRuns(row, n) ==
    IF n = 0 \/ RowBit(row, n - 1) # 0
    THEN [ok |-> FALSE, b1 |-> 0, w1 |-> 0, b2 |-> 0]
    ELSE LET r3 == RunBack(row, n - 1)
         IN  IF n - r3 = 0
             THEN [ok |-> FALSE, b1 |-> 0, w1 |-> 0, b2 |-> r3]
             ELSE LET r2 == RunBack(row, n - 1 - r3)
                  IN  IF n - r3 - r2 = 0
                      THEN [ok |-> FALSE, b1 |-> 0, w1 |-> r2, b2 |-> r3]
                      ELSE [ok |-> TRUE, b1 |-> RunBack(row, n - 1 - r3 - r2),
                            w1 |-> r2, b2 |-> r3]

\* the nine constraints on the run lengths, as C12 lists them
RatioConstraints(rb1, rw1, rb2) ==
    /\ rb1 >= 2
    /\ rb2 >= 2
    /\ WideLeq(Wide(rb1), max_unit)
    /\ WideLeq(Wide(rb2), max_unit)
    /\ WideLeq(Wide(rw1), WideAdd(max_unit, max_unit))
    /\ Abs(rb1 + rb2 - rw1) <= rb1 + rb2
    /\ Abs(rb1 + rb2 - rw1) <= rw1
    /\ Abs(rb1 - rb2) <= rb1
    /\ Abs(rb1 - rb2) <= rb2

\* C12: processing a pixel appends a candidate exactly when the machine is in
\* B2, the pixel is white and the nine constraints hold of b1, w1, b2; in B2
\* these are the lengths of the black, white, black runs of the row that end
\* immediately before the pixel; at most one candidate is appended per pixel.
C12_CandidateExactlyWhen ==
    [][(ThresholdPixel /\ pc' # "panic") =>
          LET a    == Bit(data'[k])
              runs == PrecedingRuns(j, i)
          IN  /\ \/ candidates' = candidates
                 \/ /\ Len(candidates') = Len(candidates) + 1
                    /\ SubSeq(candidates', 1, Len(candidates)) = candidates
              /\ candidates' # candidates <=>
                     (level = BlackRegionSecond /\ a = 1 /\ RatioConstraints(b1, w1, b2))
              /\ level = BlackRegionSecond <=> runs.ok
              /\ level = BlackRegionSecond =>
                     <<b1, w1, b2>> = <<runs.b1, runs.w1, runs.b2>>]_vars

\* a white pixel has just been processed after black, white, black runs that
\* meet the constraints, and a candidate is held
C12_Witness ==
    /\ pc = "pixel"
    /\ i >= 1
    /\ RowBit(j, i - 1) = 1
    /\ PrecedingRuns(j, i - 1).ok
    /\ RatioConstraints(PrecedingRuns(j, i - 1).b1, PrecedingRuns(j, i - 1).w1,
                        PrecedingRuns(j, i - 1).b2)
    /\ Len(candidates) >= 1
    /\ candidates[Len(candidates)].y = j

\* C13: when a candidate is appended while scanning row j, the flat index
\* 1 + b2 + (w1 >> 1) positions back along the scan direction lies inside row
\* j (so k - dk never underflows on a left-to-right row), the candidate's x
\* is the column of that pixel, 0 <= x < width, and its y is j.
C13_CandidateInsideRow ==
    /\ [](pc # "panic")
    /\ [][(ThresholdPixel /\ candidates' # candidates) =>
              LET back  == 1 + b2 + (w1 \div 2)
                  index == IF j % 2 = 0 THEN k - back ELSE k + back
                  c     == candidates'[Len(candidates')]
              IN  /\ j * width <= index
                  /\ index < (j + 1) * width
                  /\ c.x = index - j * width
                  /\ 0 <= c.x
                  /\ c.x < width
                  /\ c.y = j]_vars

\* a candidate has been appended on a right-to-left row
C13_Witness ==
    /\ pc \in {"pixel", "row"}
    /\ Len(candidates) >= 1
    /\ candidates[Len(candidates)].y = 1
    /\ candidates[Len(candidates)].x < width
    /\ written # {}

\* the indices taken before the pixel taken n-th in row `row`
TakenBefore(row, n) ==
    {ScanIndex(r, m) : r \in 0..(row - 1), m \in 0..(width - 1)}
        \cup {ScanIndex(row, m) : m \in 0..(n - 1)}

\* C14: a threshold pass takes (decode_rgb, buffer read and write) every flat
\* index in [0, width * height) exactly once and no other index, rows in
\* increasing order, columns rising on even rows and falling on odd rows; the
\* index k in use is always within [0, width * height).
C14_EveryIndexOnceInOrder ==
    /\ pc = "pixel" =>
           /\ j \in 0..(height - 1)
           /\ i \in 0..(width - 1)
           /\ k = j * width + (IF j % 2 = 0 THEN i ELSE width - 1 - i)
           /\ k \in AllIndices
           /\ k \notin written
           /\ written = TakenBefore(j, i)
           /\ Cardinality(written) = j * width + i
    /\ PassDone => written = AllIndices

\* the pass is inside a right-to-left row, past its first pixel
C14_Witness ==
    /\ pc = "pixel"
    /\ j = 1
    /\ i >= 2
    /\ k = (j + 1) * width - 1 - i
    /\ last = k + 1
    /\ Cardinality(written) = width + i

\* C15: the threshold of pixel k is computed from the running sum after the
\* pixel's intensity has entered it: sum / 32 in row 0, and (sum + p) / 64 in
\* later rows, p being the low 24 bits stored in this pass for the pixel
\* above (index k - width); the pixel is stored black iff its intensity is
\* below threshold * 0.975 (that is, 40 * intensity < 39 * threshold).
C15_ThresholdAfterSumUpdate ==
    [][ThresholdPixel =>
          LET rgb       == image_buffer[k]
              intensity == (rgb[1] + rgb[2] + rgb[3]) \div 3
              updated   == sum + intensity - (sum \div 32)
              threshold == IF j = 0 THEN updated \div 32
                           ELSE (updated + data[k - width].low) \div 64
          IN  /\ sum' = updated
              /\ j = 0 <=> k < width
              /\ j > 0 => (k - width) \in written
              /\ data'[k].top = 0 <=> 40 * intensity < 39 * threshold
              /\ data'[k].top = 1 <=> 40 * intensity >= 39 * threshold
              /\ data'[k].low = updated]_vars

\* below row 0 a pixel has been stored black on a threshold that takes in the
\* sum stored above it, and some pixel of the pass was stored white
C15_Witness ==
    /\ pc = "pixel"
    /\ j >= 1
    /\ last >= width
    /\ (last - width) \in written
    /\ Top(data[last]) = 0
    /\ Low24(data[last]) = sum
    /\ \E n \in written : Top(data[n]) = 1

\* every pixel of the image is the same grey (R = G = B)
IsUniformGrey ==
    \E v \in 0..255 : \A n \in DOMAIN image_buffer : image_buffer[n] = <<v, v, v>>

\* the places of row `row` (in the order taken) whose stored binary value
\* differs from that of the pixel taken before it in the row
RowChanges(row) == {n \in 1..(width - 1) : RowBit(row, n) # RowBit(row, n - 1)}

\* the flat index of the pixel taken p-th (from 0) in the whole pass
PassIndex(p) == ScanIndex(p \div width, p % width)

\* C20 as claimed: after a pass over an image of one grey the binarized
\* pixels, in the order taken, change value at most once over the whole pass,
\* black before white, and no candidate is produced.
C20_UniformChangesOnce ==
    (PassDone /\ IsUniformGrey) =>
        /\ \A p, q \in AllIndices :
               (p < q /\ Bit(data[PassIndex(p)]) = 1) => Bit(data[PassIndex(q)]) = 1
        /\ candidates = <<>>

\* C20 amended: in a pass over an image of one grey the binarized pixels of
\* each row, in the order taken, change value at most once, so the ring state
\* machine never reaches B2 and no candidate is produced; over the whole pass
\* the value can change more than once.
C20_UniformRowChangesOnce ==
    IsUniformGrey =>
        /\ InPass => level # BlackRegionSecond /\ candidates = <<>>
        /\ PassDone =>
               /\ candidates = <<>>
               /\ \A row \in 0..(height - 1) : Cardinality(RowChanges(row)) <= 1

\* a pass over an image of one grey has ended whose first pixel is stored
\* black, while a later row starts white and turns black
C20_Witness ==
    /\ PassDone
    /\ IsUniformGrey
    /\ candidates = <<>>
    /\ Bit(data[0]) = 0
    /\ \E row \in 1..(height - 1) :
          /\ RowBit(row, 0) = 1
          /\ Cardinality(RowChanges(row)) = 1

\* a helper called as `op` has returned
Returned(op) == query.op = op /\ query.at = "returned"

\* (x, y) is a pixel of the image
InImage(x, y) == x \in 0..(width - 1) /\ y \in 0..(height - 1)

\* the number of pixels with binary value 1 in the 3x3 window centred at
\* (x, y), for (x, y) not on the border
WhiteInWindow(x, y) ==
    Cardinality({<<a, b>> \in ((x - 1)..(x + 1)) \X ((y - 1)..(y + 1)) :
                     Bit(data[b * width + a]) = 1})

\* (x, y) is within 1 of an edge of the image
WithinOneOfEdge(x, y) == x < 1 \/ x >= width - 1 \/ y < 1 \/ y >= height - 1

\* the n >= 1 for which (x + n * dx, y + n * dy) is a pixel of the image whose
\* get_bw_3x3 value differs from that of the start of the dist call
RayChanges ==
    {n \in 1..(width + height) :
        /\ InImage(query.x + n * query.dx, query.y + n * query.dy)
        /\ get_bw_3x3(query.x + n * query.dx, query.y + n * query.dy)
               # get_bw_3x3(query.x, query.y)}

\* C16 as claimed: for a direction other than (0, 0), dist returns the
\* Manhattan distance from (x, y) to the first pixel on the ray whose
\* get_bw_3x3 value differs from that of (x, y), and -1 only if the ray
\* leaves the image before such a pixel; a result >= 0 is >= 1.  The loop
\* gives up at column 1 and at row 1, and on a start (x, y) whose value is 1
\* the border pixel that ends every ray differs from it.
C16_DistToFirstChange ==
    (Returned("dist") /\ <<query.dx, query.dy>> # <<0, 0>>) =>
        /\ RayChanges # {} =>
               \E n \in RayChanges :
                   /\ \A m \in RayChanges : n <= m
                   /\ query.result = n * (Abs(query.dx) + Abs(query.dy))
        /\ RayChanges = {} => query.result = -1
        /\ query.result >= 0 => query.result >= 1

\* C17: get_bw_3x3(x, y) returns 0 when (x, y) is within 1 of an edge, and
\* otherwise 1 iff at least 5 of the 9 pixels of the 3x3 window centred at
\* (x, y) have binary bit 1; it reads no index outside [0, width * height).
C17_MajorityOfWindow ==
    Returned("get_bw_3x3") =>
        /\ query.result \in {0, 1}
        /\ WithinOneOfEdge(query.x, query.y) => query.result = 0
        /\ ~WithinOneOfEdge(query.x, query.y) =>
               (query.result = 1 <=> WhiteInWindow(query.x, query.y) >= 5)
        /\ query.reads \subseteq AllIndices
        /\ ~WithinOneOfEdge(query.x, query.y) => Cardinality(query.reads) = 9

\* get_bw_3x3 has returned 1 on a window with exactly 5 white pixels
C17_Witness ==
    /\ Returned("get_bw_3x3")
    /\ ~WithinOneOfEdge(query.x, query.y)
    /\ WhiteInWindow(query.x, query.y) = 5
    /\ query.result = 1

\* C18: get_sample_3x3(x, y) returns 0 on border pixels and otherwise
\* floor(255 * n / 9), n being the number of white pixels in the 3x3 window
\* centred at (x, y); the result is in [0, 255], is 0 iff n = 0 and 255 iff
\* n = 9; n = 2 gives 56 and n = 4 gives 113.
C18_SampleIsScaledMean ==
    Returned("get_sample_3x3") =>
        /\ query.result \in 0..255
        /\ WithinOneOfEdge(query.x, query.y) => query.result = 0
        /\ ~WithinOneOfEdge(query.x, query.y) =>
               LET n == WhiteInWindow(query.x, query.y)
               IN  /\ query.result = (255 * n) \div 9
                   /\ query.result = 0 <=> n = 0
                   /\ query.result = 255 <=> n = 9
                   /\ n = 2 => query.result = 56
                   /\ n = 4 => query.result = 113
        /\ query.reads \subseteq AllIndices

\* get_sample_3x3 has returned 113 on a window with 4 white pixels
C18_Witness ==
    /\ Returned("get_sample_3x3")
    /\ ~WithinOneOfEdge(query.x, query.y)
    /\ WhiteInWindow(query.x, query.y) = 4
    /\ query.result = 113

\* the start (x, y) of the dist call is not within 1 of an edge
InteriorStart == ~WithinOneOfEdge(query.x, query.y)

\* the start (x, y) of the dist call is where the loop does not give up:
\* 2 <= x <= width - 2 and 2 <= y <= height - 1
LoopRegionStart ==
    /\ 2 <= query.x
    /\ query.x <= width - 2
    /\ 2 <= query.y
    /\ query.y <= height - 1

====
